---------------------------- MODULE Spec2Model ----------------------------
(***************************************************************************)
(* Flood inundation mapping, Mahanadi basin (Mahanadi_Flood_Inundation.js). *)
(*                                                                         *)
(* The script is a straight-line sequence of calls into the Earth Engine   *)
(* client library.  The model keeps one variable per script binding, one   *)
(* action per numbered section of the script, and models every library     *)
(* call the script makes by what the call computes on a small pixel grid.  *)
(*                                                                         *)
(* Abstractions:                                                           *)
(*  - the 30 m sampling grid over the 3 x 3 degree AOI is a GridW x GridH   *)
(*    grid whose last column lies east of the AOI;                         *)
(*  - an image is a function from pixels to [m, v]: m is the mask bit, v    *)
(*    the band value (0 under the mask);                                   *)
(*  - floating point values are exact: rainfall and elevation are integers, *)
(*    areas are rationals [n, d];                                          *)
(*  - the service evaluates eagerly (the real service defers evaluation,   *)
(*    which changes no value).                                             *)
(***************************************************************************)
EXTENDS Integers, Sequences, FiniteSets, TLC

VARIABLES
    pc,             \* position of the script: the next section to run
    srtm,           \* catalog asset USGS/SRTMGL1_003 (an image)
    chirps,         \* catalog collection UCSB-CHG/CHIRPS/DAILY
    s1grd,          \* catalog collection COPERNICUS/S1_GRD
    dem,            \* var dem
    rain,           \* var rain
    s1,             \* var s1
    heavyRain,      \* var heavyRain
    floodRisk,      \* var floodRisk
    pixelAreaKm2,   \* var pixelAreaKm2
    floodArea,      \* var floodArea (the dictionary entry 'area')
    floodArea_km2,  \* var floodArea_km2
    floodVectors,   \* var floodVectors
    console,        \* what print() has written
    layers,         \* names of the layers and panels added to the Map
    tasks,          \* export tasks submitted to the service, in order
    emptySum,       \* the service's reduceRegion entry for a sum over no pixel
    history         \* inputs and results of the runs that have finished

vars == <<pc, srtm, chirps, s1grd, dem, rain, s1, heavyRain, floodRisk,
          pixelAreaKm2, floodArea, floodArea_km2, floodVectors, console,
          layers, tasks, emptySum, history>>

-----------------------------------------------------------------------------
(* Bounds of the model *)

GridW == 4
GridH == 2
MaxRuns == 2
ElevSpread == 2
RainSpread == 3

-----------------------------------------------------------------------------
(* Literals of the script *)

RainThreshold == 200
ElevThreshold == 50
Scale == 30
SqMetresPerKm2 == 1000000

WindowStart == <<2022, 7, 1>>
WindowEnd == <<2022, 7, 31>>

-----------------------------------------------------------------------------
(* The sampling grid and the area of interest *)

World == (1..GridW) \X (1..GridH)

\* var aoi: the bounding box; the model's grid has one column east of it
aoi == {p \in World : p[1] < GridW}

\* two pixels touch by an edge or by a corner
Adjacent8(p, q) ==
    /\ p # q
    /\ p[1] - q[1] \in {-1, 0, 1}
    /\ p[2] - q[2] \in {-1, 0, 1}

\* two pixels touch by an edge
Adjacent4(p, q) ==
    /\ Adjacent8(p, q)
    /\ (p[1] = q[1] \/ p[2] = q[2])

-----------------------------------------------------------------------------
(* Numbers: rationals n/d with d > 0 *)

Rat(n, d) == [n |-> n, d |-> d]

RatEq(a, b) == IF a.d = b.d THEN a.n = b.n ELSE a.n * b.d = b.n * a.d

RatIsZero(a) == a.n = 0

\* a + b for the denominators the script produces
RatAdd(a, b) ==
    IF a.d = b.d THEN Rat(a.n + b.n, a.d)
    ELSE Rat(a.n * b.d + b.n * a.d, a.d * b.d)

-----------------------------------------------------------------------------
(* Images *)

Masked == [m |-> FALSE, v |-> 0]
Px(v) == [m |-> TRUE, v |-> v]

EmptyImage == [p \in World |-> Masked]

Footprint(img) == {p \in World : img[p].m}

\* ee.Image.clip(geometry): pixels outside the geometry are masked
Clip(img, geometry) ==
    [p \in World |-> IF p \in geometry THEN img[p] ELSE Masked]

BoolToInt(b) == IF b THEN 1 ELSE 0

\* gt written as gte
GtOrEqual(img, k) ==
    [p \in World |-> IF img[p].m THEN Px(BoolToInt(img[p].v >= k)) ELSE Masked]

\* lt written as lte
LtOrEqual(img, k) ==
    [p \in World |-> IF img[p].m THEN Px(BoolToInt(img[p].v <= k)) ELSE Masked]

\* ee.Image.gt(k): 1 where the value is strictly greater, else 0; mask kept
Gt(img, k) ==
    [p \in World |-> IF img[p].m THEN Px(BoolToInt(img[p].v > k)) ELSE Masked]

\* ee.Image.lt(k): 1 where the value is strictly smaller, else 0; mask kept
Lt(img, k) ==
    [p \in World |-> IF img[p].m THEN Px(BoolToInt(img[p].v < k)) ELSE Masked]

\* ee.Image.and(other): 1 where both are non-zero; masked where either is
And(a, b) ==
    [p \in World |->
        IF a[p].m /\ b[p].m
        THEN Px(BoolToInt(a[p].v # 0 /\ b[p].v # 0))
        ELSE Masked]

\* ee.Image.updateMask(mask): a pixel stays valid where it was valid and the
\* mask image is valid and non-zero
UpdateMask(img, mask) ==
    [p \in World |->
        IF img[p].m /\ mask[p].m /\ mask[p].v # 0 THEN img[p] ELSE Masked]

\* ee.Image.selfMask(): updateMask with the image itself
SelfMask(img) == UpdateMask(img, img)

\* ee.Image.toByte(): the value cast to 0..255, out-of-range values clamped
ToByte(img) ==
    [p \in World |->
        IF img[p].m
        THEN Px(IF img[p].v < 0 THEN 0 ELSE IF img[p].v > 255 THEN 255 ELSE img[p].v)
        ELSE Masked]

-----------------------------------------------------------------------------
(* Image collections: sets of [date, img] (S1_GRD: [date, instrumentMode, VV]) *)

\* days of 2022 before the first of each month
DaysBeforeMonth == <<0, 31, 59, 90, 120, 151, 181, 212, 243, 273, 304, 334>>

\* a calendar date <<y, m, d>> as a day number: the instant 00:00 UTC of the
\* day, which is what a date string parses to and what a daily grid carries
\* as its system:time_start
DayNumber(date) == (date[1] - 2022) * 365 + DaysBeforeMonth[date[2]] + date[3]

\* ee.ImageCollection.filterBounds(geometry): elements whose footprint
\* intersects the geometry
FilterBounds(coll, geometry) ==
    {i \in coll : \E p \in geometry : IF "img" \in DOMAIN i THEN i.img[p].m ELSE i.VV[p].m}

\* ee.ImageCollection.filterDate(start, end): start inclusive, end exclusive
FilterDate(coll, start, end) ==
    {i \in coll : /\ DayNumber(i.date) >= DayNumber(start)
                  /\ DayNumber(i.date) < DayNumber(end)}

\* ee.ImageCollection.filter(ee.Filter.eq('instrumentMode', mode))
FilterModeEq(coll, mode) == {i \in coll : i.instrumentMode = mode}

\* ee.ImageCollection.select('VV')
SelectVV(coll) == {[date |-> i.date, img |-> i.VV] : i \in coll}

RECURSIVE SumAt(_, _)
SumAt(coll, p) ==
    IF coll = {} THEN 0
    ELSE LET i == CHOOSE j \in coll : TRUE
         IN  (IF i.img[p].m THEN i.img[p].v ELSE 0) + SumAt(coll \ {i}, p)

\* ee.ImageCollection.sum(): per pixel, the sum of the valid values; a pixel
\* no element covers is masked
SumCollection(coll) ==
    [p \in World |->
        IF \E i \in coll : i.img[p].m THEN Px(SumAt(coll, p)) ELSE Masked]

\* ee.ImageCollection.mosaic(): per pixel, the valid value of the last
\* element (the collection is ordered by time)
Mosaic(coll) ==
    [p \in World |->
        LET over == {i \in coll : i.img[p].m}
        IN  IF over = {} THEN Masked
            ELSE (CHOOSE i \in over :
                    \A j \in over : DayNumber(j.date) <= DayNumber(i.date)).img[p]]

-----------------------------------------------------------------------------
(* Area, region reduction, numbers on the service *)

\* ee.Image.pixelArea(): band 'area', square metres of each pixel
PixelArea == [p \in World |-> Px(Rat(Scale * Scale, 1))]

\* ee.Image.divide(k) for a positive integer k
Divide(img, k) ==
    [p \in World |-> IF img[p].m THEN Px(Rat(img[p].v.n, img[p].v.d * k)) ELSE Masked]

RECURSIVE SumOver(_, _)
SumOver(img, pixels) ==
    IF pixels = {} THEN Rat(0, 1)
    ELSE LET p == CHOOSE q \in pixels : TRUE
         IN  RatAdd(img[p].v, SumOver(img, pixels \ {p}))

\* A value of the service: a number, null (a dictionary entry that is
\* absent), or an evaluation error
Num(r) == [st |-> "ok", val |-> r]
Null == [st |-> "null", val |-> Rat(0, 1)]
EvalError == [st |-> "error", val |-> Rat(0, 1)]

\* image.reduceRegion({reducer: ee.Reducer.sum(), geometry, scale, maxPixels})
\* .get('area'): the sum over the valid pixels inside the geometry.
\* ofNothing is the service's entry for a region with no valid pixel.
ReduceRegionSum(img, geometry, ofNothing) ==
    LET inputs == Footprint(img) \cap geometry
    IN  [pixels |-> inputs,
         area   |-> IF inputs = {} THEN ofNothing ELSE Num(SumOver(img, inputs))]

\* ee.Number(left).or(right): the logical OR of two numbers, 1 if either is
\* non-zero and 0 otherwise; a null operand is an evaluation error
NumberOr(left, right) ==
    IF left.st # "ok" \/ right.st # "ok" THEN EvalError
    ELSE IF ~RatIsZero(left.val) \/ ~RatIsZero(right.val)
         THEN Num(Rat(1, 1))
         ELSE Num(Rat(0, 1))

-----------------------------------------------------------------------------
(* Vectorization *)

RECURSIVE Grow(_, _, _)
Grow(region, valid, img) ==
    LET v == img[CHOOSE p \in region : TRUE].v
        more == {q \in valid \ region :
                    /\ img[q].v = v
                    /\ \E r \in region : Adjacent8(r, q)}
    IN  IF more = {} THEN region ELSE Grow(region \cup more, valid, img)

\* image.reduceToVectors({geometry, scale, geometryType: 'polygon',
\* labelProperty, maxPixels}): one polygon per connected group of valid pixels
\* of equal value inside the geometry (eightConnected defaults to true); the
\* label property holds the value, 'count' the number of pixels
ReduceToVectors(img, geometry) ==
    LET valid == Footprint(img) \cap geometry
    IN  {[pixels |-> Grow({p}, valid, img),
          flood  |-> img[p].v,
          count  |-> Cardinality(Grow({p}, valid, img))] : p \in valid}

-----------------------------------------------------------------------------
(* Export tasks *)

\* the file an image export writes: the pixels of the region, a masked
\* pixel written as 0
RasterFile(img, region) ==
    [p \in region |-> IF img[p].m THEN img[p].v ELSE 0]

Task(type, description, fileFormat, content) ==
    [type |-> type, description |-> description, folder |-> "GEE_Exports",
     fileFormat |-> fileFormat, content |-> content, state |-> "READY"]

-----------------------------------------------------------------------------
(* The expressions the script binds, over the current bindings *)

\* var dem = ee.Image("USGS/SRTMGL1_003").clip(aoi)
DemExpr == Clip(srtm, aoi)

\* var rain = ee.ImageCollection("UCSB-CHG/CHIRPS/DAILY").filterBounds(aoi)
\*   .filterDate('2022-07-01', '2022-07-31').sum().clip(aoi)
RainExpr ==
    Clip(SumCollection(FilterDate(FilterBounds(chirps, aoi), WindowStart, WindowEnd)), aoi)

\* var s1 = ee.ImageCollection("COPERNICUS/S1_GRD").filterBounds(aoi)
\*   .filterDate(...).filter(ee.Filter.eq('instrumentMode','IW')).select('VV')
\*   .mosaic().clip(aoi)
S1Expr ==
    Clip(Mosaic(SelectVV(FilterModeEq(
            FilterDate(FilterBounds(s1grd, aoi), WindowStart, WindowEnd), "IW"))), aoi)

\* a threshold that drifts with what earlier runs left on the service
HeavyRainExpr_Drifting == Gt(rain, RainThreshold + Len(tasks))

\* var heavyRain = rain.gt(200)
HeavyRainExpr == Gt(rain, RainThreshold)

\* the radar composite taken into the overlay (low backscatter as water)
FloodRiskExpr_UsesRadar == And(And(Lt(dem, ElevThreshold), heavyRain), Lt(s1, -15))

\* var floodRisk = dem.lt(50).and(heavyRain)
FloodRiskExpr == And(Lt(dem, ElevThreshold), heavyRain)

\* var pixelAreaKm2 = ee.Image.pixelArea().divide(1e6)
PixelAreaKm2Expr == Divide(PixelArea, SqMetresPerKm2)

\* the updateMask call left out
AreaImageExpr_NoMask == PixelAreaKm2Expr

\* pixelAreaKm2.updateMask(floodRisk): the image the region reduction sums
AreaImageExpr == UpdateMask(PixelAreaKm2Expr, floodRisk)

\* var floodArea = pixelAreaKm2.updateMask(floodRisk).reduceRegion({...})
FloodAreaExpr == ReduceRegionSum(AreaImageExpr, aoi, emptySum)

\* var floodArea_km2 = ee.Number(floodArea.get('area')).or(0)
FloodAreaKm2Expr == NumberOr(FloodAreaExpr.area, Num(Rat(0, 1)))

\* the selfMask call left out
VectorInputExpr_NoSelfMask == floodRisk

\* floodRisk.selfMask(): the image that is vectorized
VectorInputExpr == SelfMask(floodRisk)

\* var floodVectors = floodRisk.selfMask().reduceToVectors({geometry: aoi, ...})
FloodVectorsExpr == ReduceToVectors(VectorInputExpr, aoi)

\* Export.image.toDrive({image: floodRisk.toByte(), region: aoi, ...})
RasterTaskExpr ==
    Task("EXPORT_IMAGE", "MahanadiBasin_FloodRiskRaster", "GeoTIFF",
         RasterFile(ToByte(floodRisk), aoi))

\* Export.table.toDrive({collection: floodVectors, fileFormat: 'SHP', ...})
PolygonsTaskExpr ==
    Task("EXPORT_FEATURES", "MahanadiBasin_FloodRiskPolygons", "SHP", floodVectors)

\* Export.table.toDrive({collection: ee.FeatureCollection([ee.Feature(null,
\*   {'FloodArea_km2': floodArea_km2})]), fileFormat: 'CSV', ...})
SummaryTaskExpr ==
    Task("EXPORT_FEATURES", "MahanadiBasin_FloodAreaSummary", "CSV",
         <<[FloodArea_km2 |-> floodArea_km2]>>)

-----------------------------------------------------------------------------
(* The script, one action per section *)

inputs == <<srtm, chirps, s1grd, emptySum>>

\* 0) AOI
DefineAoi ==
    /\ pc = "aoi"
    /\ layers' = Append(layers, "AOI: Mahanadi Basin")
    /\ pc' = "dem"
    /\ UNCHANGED <<inputs, dem, rain, s1, heavyRain, floodRisk, pixelAreaKm2,
                   floodArea, floodArea_km2, floodVectors, console, tasks, history>>

\* 1) DEM
LoadDem ==
    /\ pc = "dem"
    /\ dem' = DemExpr
    /\ layers' = Append(layers, "DEM")
    /\ pc' = "rain"
    /\ UNCHANGED <<inputs, rain, s1, heavyRain, floodRisk, pixelAreaKm2,
                   floodArea, floodArea_km2, floodVectors, console, tasks, history>>

\* 2) CHIRPS rainfall
LoadRain ==
    /\ pc = "rain"
    /\ rain' = RainExpr
    /\ layers' = Append(layers, "Total Rainfall July 2022")
    /\ pc' = "s1"
    /\ UNCHANGED <<inputs, dem, s1, heavyRain, floodRisk, pixelAreaKm2,
                   floodArea, floodArea_km2, floodVectors, console, tasks, history>>

\* 3) Sentinel-1 overlay
LoadS1 ==
    /\ pc = "s1"
    /\ s1' = S1Expr
    /\ layers' = Append(layers, "Sentinel-1 VV")
    /\ pc' = "heavyRain"
    /\ UNCHANGED <<inputs, dem, rain, heavyRain, floodRisk, pixelAreaKm2,
                   floodArea, floodArea_km2, floodVectors, console, tasks, history>>

\* 4) heavy rainfall zones
ComputeHeavyRain ==
    /\ pc = "heavyRain"
    /\ heavyRain' = HeavyRainExpr
    /\ layers' = Append(layers, "Rainfall > 200mm")
    /\ pc' = "floodRisk"
    /\ UNCHANGED <<inputs, dem, rain, s1, floodRisk, pixelAreaKm2,
                   floodArea, floodArea_km2, floodVectors, console, tasks, history>>

\* 5) flood-prone areas
ComputeFloodRisk ==
    /\ pc = "floodRisk"
    /\ floodRisk' = FloodRiskExpr
    /\ layers' = Append(layers, "Potential Flood Zones")
    /\ pc' = "floodArea"
    /\ UNCHANGED <<inputs, dem, rain, s1, heavyRain, pixelAreaKm2,
                   floodArea, floodArea_km2, floodVectors, console, tasks, history>>

\* 6) area statistics: lines 47-54
ComputeFloodArea ==
    /\ pc = "floodArea"
    /\ pixelAreaKm2' = PixelAreaKm2Expr
    /\ floodArea' = FloodAreaExpr
    /\ floodArea_km2' = FloodAreaKm2Expr
    /\ pc' = "print"
    /\ UNCHANGED <<inputs, dem, rain, s1, heavyRain, floodRisk, floodVectors,
                   console, layers, tasks, history>>

\* 6) print('Flood-prone area (km2):', floodArea_km2)
PrintFloodArea ==
    /\ pc = "print"
    /\ console' = Append(console, floodArea_km2)
    /\ pc' = "floodVectors"
    /\ UNCHANGED <<inputs, dem, rain, s1, heavyRain, floodRisk, pixelAreaKm2,
                   floodArea, floodArea_km2, floodVectors, layers, tasks, history>>

\* 7) vectorize
Vectorize ==
    /\ pc = "floodVectors"
    /\ floodVectors' = FloodVectorsExpr
    /\ layers' = Append(layers, "Flood-prone Polygons")
    /\ pc' = "exportRaster"
    /\ UNCHANGED <<inputs, dem, rain, s1, heavyRain, floodRisk, pixelAreaKm2,
                   floodArea, floodArea_km2, console, tasks, history>>

\* an Export call that waits for the tasks submitted before it
MaySubmit_AfterEarlierTasks ==
    \A i \in 1..Len(tasks) : tasks[i].state = "COMPLETED"

\* the guard of an Export call: the script submits without looking at the
\* tasks submitted before
MaySubmit == TRUE

\* 8) Export.image.toDrive
ExportRaster ==
    /\ pc = "exportRaster"
    /\ MaySubmit
    /\ tasks' = Append(tasks, RasterTaskExpr)
    /\ pc' = "exportPolygons"
    /\ UNCHANGED <<inputs, dem, rain, s1, heavyRain, floodRisk, pixelAreaKm2,
                   floodArea, floodArea_km2, floodVectors, console, layers, history>>

\* 8) Export.table.toDrive, polygons
ExportPolygons ==
    /\ pc = "exportPolygons"
    /\ MaySubmit
    /\ tasks' = Append(tasks, PolygonsTaskExpr)
    /\ pc' = "exportSummary"
    /\ UNCHANGED <<inputs, dem, rain, s1, heavyRain, floodRisk, pixelAreaKm2,
                   floodArea, floodArea_km2, floodVectors, console, layers, history>>

\* 8) Export.table.toDrive, summary
ExportSummary ==
    /\ pc = "exportSummary"
    /\ MaySubmit
    /\ tasks' = Append(tasks, SummaryTaskExpr)
    /\ pc' = "legend"
    /\ UNCHANGED <<inputs, dem, rain, s1, heavyRain, floodRisk, pixelAreaKm2,
                   floodArea, floodArea_km2, floodVectors, console, layers, history>>

\* 9) addLegendFlood()
AddLegendFlood ==
    /\ pc = "legend"
    /\ layers' = Append(layers, "Flood Risk Legend")
    /\ pc' = "done"
    /\ UNCHANGED <<inputs, dem, rain, s1, heavyRain, floodRisk, pixelAreaKm2,
                   floodArea, floodArea_km2, floodVectors, console, tasks, history>>

\* one step of the script
Step ==
    \/ DefineAoi
    \/ LoadDem
    \/ LoadRain
    \/ LoadS1
    \/ ComputeHeavyRain
    \/ ComputeFloodRisk
    \/ ComputeFloodArea
    \/ PrintFloodArea
    \/ Vectorize
    \/ ExportRaster
    \/ ExportPolygons
    \/ ExportSummary
    \/ AddLegendFlood

-----------------------------------------------------------------------------
(* The service and the user, outside the script *)

\* a submitted task runs to completion on the service; a task whose content
\* cannot be evaluated cannot complete
TaskCompletes(i) ==
    /\ i \in 1..Len(tasks)
    /\ tasks[i].state = "READY"
    /\ tasks[i].fileFormat = "CSV" => tasks[i].content[1].FloodArea_km2.st # "error"
    /\ tasks' = [tasks EXCEPT ![i].state = "COMPLETED"]
    /\ UNCHANGED <<pc, inputs, dem, rain, s1, heavyRain, floodRisk, pixelAreaKm2,
                   floodArea, floodArea_km2, floodVectors, console, layers, history>>

\* a submitted task fails on the service (quota, permissions, evaluation)
TaskFails(i) ==
    /\ i \in 1..Len(tasks)
    /\ tasks[i].state = "READY"
    /\ tasks' = [tasks EXCEPT ![i].state = "FAILED"]
    /\ UNCHANGED <<pc, inputs, dem, rain, s1, heavyRain, floodRisk, pixelAreaKm2,
                   floodArea, floodArea_km2, floodVectors, console, layers, history>>

\* the bindings before the script has assigned them
Unbound ==
    /\ dem = EmptyImage
    /\ rain = EmptyImage
    /\ s1 = EmptyImage
    /\ heavyRain = EmptyImage
    /\ floodRisk = EmptyImage
    /\ pixelAreaKm2 = EmptyImage
    /\ floodArea = [pixels |-> {}, area |-> Null]
    /\ floodArea_km2 = Null
    /\ floodVectors = {}
    /\ console = <<>>
    /\ layers = <<>>

\* the user presses Run again after the script has ended: the bindings, the
\* console and the map start afresh, the tasks already submitted stay, and
\* the catalog may have changed
Rerun(catalogs) ==
    /\ pc = "done"
    /\ Len(history) + 1 < MaxRuns
    /\ history' = Append(history,
          [srtm |-> srtm, chirps |-> chirps, s1grd |-> s1grd,
           heavyRain |-> heavyRain, floodRisk |-> floodRisk,
           floodArea_km2 |-> floodArea_km2, floodVectors |-> floodVectors])
    /\ \E c \in catalogs :
          /\ srtm' = c.srtm
          /\ chirps' = c.chirps
          /\ s1grd' = c.s1grd
    /\ pc' = "aoi"
    /\ dem' = EmptyImage
    /\ rain' = EmptyImage
    /\ s1' = EmptyImage
    /\ heavyRain' = EmptyImage
    /\ floodRisk' = EmptyImage
    /\ pixelAreaKm2' = EmptyImage
    /\ floodArea' = [pixels |-> {}, area |-> Null]
    /\ floodArea_km2' = Null
    /\ floodVectors' = {}
    /\ console' = <<>>
    /\ layers' = <<>>
    /\ UNCHANGED <<tasks, emptySum>>

-----------------------------------------------------------------------------
(* Catalog contents the specifications start from *)

Uniform(v) == [p \in World |-> Px(v)]

Daily(date, mm) == [date |-> date, img |-> Uniform(mm)]

Scene(date, mode, db) == [date |-> date, instrumentMode |-> mode, VV |-> Uniform(db)]

\* two daily grids inside the window, summing to just above the threshold
WetJuly ==
    {Daily(<<2022, 7, 1>>, RainThreshold \div 2 + 1),
     Daily(<<2022, 7, 30>>, RainThreshold \div 2 + 1)}

\* two daily grids inside the window, summing to the threshold exactly
DryJuly ==
    {Daily(<<2022, 7, 1>>, RainThreshold \div 2),
     Daily(<<2022, 7, 30>>, RainThreshold \div 2)}

OneScene == {Scene(<<2022, 7, 10>>, "IW", -12)}

\* elevations on either side of the threshold, free at every pixel of the
\* AOI; the column east of the AOI is low ground, which would qualify as
\* flood-prone if it were not clipped away
Terrains ==
    {[p \in World |-> IF p \in aoi THEN t[p] ELSE Px(ElevThreshold - 1)] :
        t \in [aoi -> {Px(ElevThreshold - 1), Px(ElevThreshold)}]}

ServiceAnswers == {Num(Rat(0, 1)), Null}

\* the first run: nothing bound, nothing submitted; a sum over no pixel is 0
\* on the service
StartOfRun ==
    /\ pc = "aoi"
    /\ Unbound
    /\ tasks = <<>>
    /\ history = <<>>
    /\ emptySum = Num(Rat(0, 1))

\* the same, for a service that may leave the entry of an empty sum out
StartOfRunAnyService ==
    /\ pc = "aoi"
    /\ Unbound
    /\ tasks = <<>>
    /\ history = <<>>
    /\ emptySum \in ServiceAnswers

Init ==
    /\ srtm \in Terrains
    /\ chirps \in {WetJuly, DryJuly}
    /\ s1grd = OneScene
    /\ StartOfRunAnyService

Next == Step

Spec == Init /\ [][Next]_vars

\* elevation rising northwards and rainfall rising eastwards, around the
\* two thresholds
InitThresholds ==
    /\ \E e0 \in (ElevThreshold - ElevSpread - 1)..ElevThreshold :
          srtm = [p \in World |-> Px(e0 + p[2])]
    /\ \E r0 \in (RainThreshold - RainSpread - 1)..RainThreshold :
          chirps = {[date |-> <<2022, 7, 15>>, img |-> [p \in World |-> Px(r0 + p[1])]]}
    /\ s1grd = OneScene
    /\ StartOfRun

SpecThresholds == InitThresholds /\ [][Next]_vars

\* any subset of daily grids around the window, each a third of the
\* threshold and a little more
CatalogDays ==
    {<<2022, 6, 30>>, <<2022, 7, 1>>, <<2022, 7, 16>>, <<2022, 7, 30>>,
     <<2022, 7, 31>>, <<2022, 8, 1>>}

InitRain ==
    /\ srtm \in {Uniform(ElevThreshold - 1), Uniform(ElevThreshold)}
    /\ \E D \in SUBSET CatalogDays :
          chirps = {Daily(d, RainThreshold \div 3 + 1) : d \in D}
    /\ s1grd = OneScene
    /\ StartOfRun

SpecRain == InitRain /\ [][Next]_vars

\* catalogs for repeated runs: the radar collection empty, one scene, a scene
\* of another mode, a later scene on top
RadarChoices ==
    {{}, OneScene,
     OneScene \cup {Scene(<<2022, 7, 20>>, "EW", -3)},
     OneScene \cup {Scene(<<2022, 7, 22>>, "IW", -20)}}

WestLow == [p \in World |-> Px(IF p[1] = 1 THEN ElevThreshold - 1 ELSE ElevThreshold)]

RerunCatalogs ==
    [srtm : {Uniform(ElevThreshold - 1), WestLow},
     chirps : {WetJuly, DryJuly},
     s1grd : RadarChoices]

InitRerun ==
    /\ \E c \in RerunCatalogs :
          /\ srtm = c.srtm
          /\ chirps = c.chirps
          /\ s1grd = c.s1grd
    /\ StartOfRun

NextRerun == Step \/ Rerun(RerunCatalogs)

SpecRerun == InitRerun /\ [][NextRerun]_vars

\* repeated runs on one catalog, with the service working on the tasks
JobsCatalogs ==
    [srtm : {WestLow}, chirps : {WetJuly}, s1grd : {OneScene}]

InitJobs ==
    /\ srtm = WestLow
    /\ chirps = WetJuly
    /\ s1grd = OneScene
    /\ StartOfRun

NextJobs ==
    \/ Step
    \/ Rerun(JobsCatalogs)
    \/ \E i \in 1..Len(tasks) : TaskCompletes(i)
    \/ \E i \in 1..Len(tasks) : TaskFails(i)

\* the interpreter runs the script to its end
SpecJobs == InitJobs /\ [][NextJobs]_vars /\ WF_vars(Step)

-----------------------------------------------------------------------------
(* Positions of the script *)

Sections ==
    <<"aoi", "dem", "rain", "s1", "heavyRain", "floodRisk", "floodArea", "print",
      "floodVectors", "exportRaster", "exportPolygons", "exportSummary", "legend",
      "done">>

SectionIndex(label) == CHOOSE k \in 1..Len(Sections) : Sections[k] = label

\* the section named label has run
Ran(label) == SectionIndex(pc) > SectionIndex(label)

\* a pixel of a boolean image is true
IsTrue(img, p) == img[p].m /\ img[p].v = 1

-----------------------------------------------------------------------------
(* C1: at every pixel with an elevation e and an accumulated rainfall r, the   *)
(* flood-risk mask is true if and only if e < 50 and r > 200, both strict.     *)

C1_FloodRiskIffLowAndHeavy ==
    Ran("floodRisk") =>
        \A p \in World :
            (dem[p].m /\ rain[p].m) =>
                /\ floodRisk[p].m
                /\ floodRisk[p].v \in {0, 1}
                /\ floodRisk[p].v = 1 <=> (dem[p].v < 50 /\ rain[p].v > 200)

\* the quadrants e=49,r=201 (true), e=50,r=201 and e=49,r=200 (false) in one run
C1_Witness ==
    /\ Ran("floodRisk")
    /\ \E p, q, r \in aoi :
          /\ dem[p].v = 49 /\ rain[p].v = 201 /\ IsTrue(floodRisk, p)
          /\ dem[q].v = 50 /\ rain[q].v = 201 /\ floodRisk[q] = Px(0)
          /\ dem[r].v = 49 /\ rain[r].v = 200 /\ floodRisk[r] = Px(0)

-----------------------------------------------------------------------------
(* C5: the heavy-rainfall mask is true for every r > 200 and false for every   *)
(* r <= 200, hence monotonic: true at r implies true at every r' >= r.         *)

C5_HeavyRainMonotonic ==
    Ran("heavyRain") =>
        /\ \A p \in World :
              rain[p].m => /\ heavyRain[p].m
                           /\ heavyRain[p].v = (IF rain[p].v > 200 THEN 1 ELSE 0)
        /\ \A p, q \in World :
              (rain[p].m /\ rain[q].m /\ IsTrue(heavyRain, p) /\ rain[q].v >= rain[p].v)
                  => IsTrue(heavyRain, q)

\* a run whose rainfall takes 200 (false), 201 and 202 (true) at three pixels
C5_Witness ==
    /\ Ran("heavyRain")
    /\ \E p, q, r \in aoi :
          /\ rain[p].v = 200 /\ heavyRain[p] = Px(0)
          /\ rain[q].v = 201 /\ IsTrue(heavyRain, q)
          /\ rain[r].v = 202 /\ IsTrue(heavyRain, r)

-----------------------------------------------------------------------------
(* C3: the accumulated rainfall is the per-pixel sum of every daily grid dated *)
(* 2022-07-01 to 2022-07-31, and of no other grid.                             *)

InJuly2022(date) == date[1] = 2022 /\ date[2] = 7 /\ date[3] \in 1..31

\* C3: after section 2, rain is the sum of all the grids of July 2022
C3_RainIsWholeJulySum ==
    Ran("rain") =>
        \A p \in aoi :
            LET july == {i \in chirps : InJuly2022(i.date)}
            IN  rain[p] = (IF july = {} THEN Masked ELSE Px(SumAt(july, p)))

-----------------------------------------------------------------------------
(* C2: the flood-area scalar equals the sum of the per-pixel areas in km2      *)
(* (m2 / 1e6) over exactly the AOI pixels where the mask is true; 0 for a mask *)
(* with no true pixel.                                                         *)

FloodPixels == {p \in aoi : IsTrue(floodRisk, p)}

\* C2: after section 6, floodArea_km2 is 900 m2 / 1e6 times the number of
\* flood pixels
C2_AreaIsSumOverMask ==
    Ran("floodArea") =>
        /\ floodArea_km2.st = "ok"
        /\ RatEq(floodArea_km2.val, Rat(Cardinality(FloodPixels) * 30 * 30, 1000000))

-----------------------------------------------------------------------------
(* C4: when the region reduction has no value for 'area', the flood-area       *)
(* scalar is 0, and the run prints it and issues its three exports.            *)

C4_AbsentAreaDefaultsToZero ==
    (pc = "done" /\ floodArea.area.st = "null") =>
        /\ floodArea_km2 = Num(Rat(0, 1))
        /\ console = <<Num(Rat(0, 1))>>
        /\ Len(tasks) = 3

-----------------------------------------------------------------------------
(* C6: vectorizing the self-masked mask yields no feature when no pixel is     *)
(* true, and exactly one polygon, covering exactly the true pixels, when the   *)
(* true pixels form one contiguous region.                                     *)

\* no way to split the set in two parts that do not touch
Contiguous(T) ==
    /\ T # {}
    /\ \A A \in SUBSET T :
          (A # {} /\ A # T) => \E a \in A, b \in T \ A : Adjacent8(a, b)

\* C6: no feature for an empty mask, one polygon for one contiguous region
C6_VectorsOfEmptyAndContiguous ==
    Ran("floodVectors") =>
        /\ FloodPixels = {} => floodVectors = {}
        /\ Contiguous(FloodPixels) =>
              /\ Cardinality(floodVectors) = 1
              /\ \A f \in floodVectors : f.pixels = FloodPixels

\* runs with an empty mask exist, and so do runs with one region of several
\* pixels that touch only by a corner somewhere
C6_WitnessEmpty == Ran("floodVectors") /\ FloodPixels = {} /\ floodVectors = {}

C6_Witness ==
    /\ Ran("floodVectors")
    /\ Cardinality(FloodPixels) >= 2
    /\ Contiguous(FloodPixels)
    /\ \E a, b \in FloodPixels :
          /\ Adjacent8(a, b)
          /\ ~Adjacent4(a, b)
          /\ \A c \in FloodPixels \ {a, b} : ~(Adjacent4(a, c) /\ Adjacent4(c, b))
    /\ Cardinality(floodVectors) = 1

-----------------------------------------------------------------------------
(* C10: the pixels with value 1 in the exported raster, the pixels covered by  *)
(* the exported polygons and the pixels whose area is summed are all exactly   *)
(* the AOI pixels where the mask is true; no pixel outside the AOI is in any.  *)

RasterOnes(file) == {p \in DOMAIN file : file[p] = 1}

PolygonPixels(features) == UNION {f.pixels : f \in features}

-----------------------------------------------------------------------------
(* Runs that have finished, and the tasks each submitted *)

\* the contents of the three exports of run k, in the order of submission
ExportsOfRun(k) ==
    <<tasks[3 * k - 2].content, tasks[3 * k - 1].content, tasks[3 * k].content>>

ThisRun == Len(history) + 1

-----------------------------------------------------------------------------
(* C7: for fixed elevation and rainfall inputs the flood-risk mask, the area   *)
(* scalar, the polygons and the contents of the three exports are the same     *)
(* whatever the radar collection is, the empty collection included.            *)

C7_RadarNotInDecision ==
    pc = "done" =>
        \A k \in 1..Len(history) :
            (history[k].srtm = srtm /\ history[k].chirps = chirps) =>
                /\ history[k].floodRisk = floodRisk
                /\ history[k].floodArea_km2 = floodArea_km2
                /\ history[k].floodVectors = floodVectors
                /\ ExportsOfRun(k) = ExportsOfRun(ThisRun)

\* two finished runs on the same terrain and rainfall, one with an empty radar
\* collection and one with a scene, whose composites differ and whose mask has
\* true pixels
C7_Witness ==
    /\ pc = "done"
    /\ \E k \in 1..Len(history) :
          /\ history[k].srtm = srtm /\ history[k].chirps = chirps
          /\ history[k].s1grd = {} /\ s1grd # {}
          /\ Footprint(s1) # {}
    /\ FloodPixels # {}

-----------------------------------------------------------------------------
(* C8: two runs on identical inputs produce the identical heavy-rainfall mask, *)
(* flood-risk mask and flood-area scalar.                                      *)

-----------------------------------------------------------------------------
(* C9: every run submits each of the three exports exactly once and ends       *)
(* without waiting for any of them, whatever the service does with the tasks;  *)
(* a further run submits three fresh tasks, so n runs have submitted 3n.       *)

\* the exports the current run has submitted so far
SubmittedByThisRun ==
    IF Ran("exportSummary") THEN 3
    ELSE IF Ran("exportPolygons") THEN 2
    ELSE IF Ran("exportRaster") THEN 1
    ELSE 0

ExportNames ==
    <<"MahanadiBasin_FloodRiskRaster", "MahanadiBasin_FloodRiskPolygons",
      "MahanadiBasin_FloodAreaSummary">>

TasksAreThreePerRun ==
    /\ Len(tasks) = 3 * Len(history) + SubmittedByThisRun
    /\ \A i \in 1..Len(tasks) : tasks[i].description = ExportNames[((i - 1) % 3) + 1]
    /\ pc = "done" => Len(tasks) = 3 * ThisRun

\* at every position before its end the script can take its next step,
\* whatever the state of the tasks
ScriptNeverWaits == pc # "done" => ENABLED Step

\* C9: three tasks per run, in order, and the script never waits for a task
C9_SubmitsThreeAndEnds == TasksAreThreePerRun /\ ScriptNeverWaits

\* with the interpreter running the script (weak fairness of Step in
\* SpecJobs), every run that starts reaches its end
ScriptReachesEnd == (pc = "aoi") ~> (pc = "done")

\* the second run has ended with six tasks submitted, while a task of the
\* first run has failed and tasks of both runs are still waiting
C9_Witness ==
    /\ pc = "done"
    /\ Len(history) = 1
    /\ Len(tasks) = 6
    /\ \E i \in 1..3 : tasks[i].state = "FAILED"
    /\ \E i \in 1..3 : tasks[i].state = "READY"
    /\ \A i \in 4..6 : tasks[i].state = "READY"

=============================================================================
